---- MODULE Spec2Model ----
(***************************************************************************)
(* Model of the real-time group chat of PensaConnect: the Socket.IO event  *)
(* handlers registered by _register_websocket_events in                    *)
(* src/backend/__init__.py, together with the state they share             *)
(* (connected_users, user_typing, current_app.rate_limit_store), the       *)
(* group_messages table they write to and the room index kept by the       *)
(* Socket.IO server they run on.                                           *)
(*                                                                         *)
(* The server runs with async_mode='gevent': a handler runs without        *)
(* interruption until it blocks on I/O.  The only blocking calls of the    *)
(* handlers are db.session.commit() and User.query.get() in                *)
(* handle_send_message, so that handler is three steps (SendBegin,         *)
(* SendCommit, SendBroadcast) and every other handler is one step.         *)
(***************************************************************************)
EXTENDS Integers, Sequences, FiniteSets, TLC

\* ---------------------------------------------------------------- bounds
MaxStamps == 1      \* timestamps the rate limiter comes to hold (Spec)
MaxRateMsgs == 1    \* rows of group_messages (SpecRate)
MaxConc == 2        \* sends explored (SpecConc)

\* ------------------------------------------------------ program constants
RateLimit == 10     \* messages per window
RateWindow == 60    \* seconds

\* ---------------------------------------------------------- input spaces
Sids == {"s1", "s2"}
Users == {1, 2}
Groups == {1, 2}

NoneV == [t |-> "none"]
IntV(n) == [t |-> "int", n |-> n]
StrV(s) == [t |-> "str", s |-> s]

Whitespace == {" "}
Digits == {"0", "1", "2"}

\* tokens a client may put in the connection's query string
Tokens ==
    {[kind |-> "missing", sub |-> 0], [kind |-> "malformed", sub |-> 0],
     [kind |-> "nosub", sub |-> 0]}
    \cup {[kind |-> "ok", sub |-> u] : u \in Users}

VARIABLES
    connected_users,    \* {socket_id: {'user_id', 'rooms', 'connected_at'}}
    user_typing,        \* {group_id: set(user_ids)}
    rate_limit_store,   \* current_app.rate_limit_store: key -> timestamps
    accepted,           \* history: key -> times at which the limiter allowed
    messages,           \* rows of GroupMessage, in commit order
    sio_connected,      \* sids the Socket.IO server holds as connected
    sio_rooms,          \* the server's room index: group room -> sids
    nested_registered,  \* typing/stop_typing/on_error_default are registered
    inflight,           \* handle_send_message calls blocked on I/O
    clock,              \* time.time(), in whole seconds
    group_chats,        \* rows of GroupChat: id -> columns
    group_members,      \* rows of GroupMember, by id
    response,           \* what the latest REST request returned
    last                \* what the latest handler step did and emitted

vars == <<connected_users, user_typing, rate_limit_store, accepted, messages,
          sio_connected, sio_rooms, nested_registered, inflight, clock, last,
          group_chats, group_members, response>>

\* --------------------------------------------------------------- emitting
NoPayload == [id |-> 0, groupId |-> 0, userId |-> 0, content |-> <<>>]
NoEmit == [event |-> "none", private |-> FALSE, room |-> 0, to |-> {},
           payload |-> NoPayload]

\* socketio_instance.emit(event, data, room=request.sid): the personal room
\* of a sid holds that sid while it is connected
EmitPrivate_Broadcast(event, sid, payload) ==
    [event |-> event, private |-> TRUE, room |-> 0,
     to |-> sio_connected, payload |-> payload]

EmitPrivate(event, sid, payload) ==
    [event |-> event, private |-> TRUE, room |-> 0,
     to |-> {sid} \cap sio_connected, payload |-> payload]

\* safe_emit(event, data, room=f"group_{gid}", include_self=...): Flask-
\* SocketIO turns include_self=False into skip_sid=request.sid
safe_emit_SkipSelf(event, gid, sid, include_self, payload) ==
    [event |-> event, private |-> FALSE, room |-> gid,
     to |-> sio_rooms[gid] \ {sid}, payload |-> payload]

safe_emit(event, gid, sid, include_self, payload) ==
    [event |-> event, private |-> FALSE, room |-> gid,
     to |-> IF include_self THEN sio_rooms[gid] ELSE sio_rooms[gid] \ {sid},
     payload |-> payload]

\* rooms: the joined-rooms set the session had when a join, leave or
\* disconnect began
Step(op, sid, outcome, emit) ==
    [op |-> op, sid |-> sid, outcome |-> outcome, emit |-> emit,
     rooms |-> {}]

\* ------------------------------------------------------------- conversions
\* int(x) of Python for the values a JSON payload can carry here
RECURSIVE DigitsValue(_)
DigitsValue(s) ==
    IF s = <<>> THEN 0
    ELSE 10 * DigitsValue(SubSeq(s, 1, Len(s) - 1))
         + (CASE s[Len(s)] = "0" -> 0 [] s[Len(s)] = "1" -> 1
              [] s[Len(s)] = "2" -> 2)

\* str.strip()
RECURSIVE LStrip(_)
LStrip(s) ==
    IF s # <<>> /\ s[1] \in Whitespace THEN LStrip(Tail(s)) ELSE s

RECURSIVE RStrip(_)
RStrip(s) ==
    IF s # <<>> /\ s[Len(s)] \in Whitespace
    THEN RStrip(SubSeq(s, 1, Len(s) - 1)) ELSE s

strip(s) == RStrip(LStrip(s))

\* int(v): [ok, n]; ok = FALSE is the TypeError / ValueError Python raises
int(v) ==
    CASE v.t = "int" -> [ok |-> TRUE, n |-> v.n]
      [] v.t = "none" -> [ok |-> FALSE, n |-> 0]
      [] v.t = "str" ->
            LET s == strip(v.s) IN
            IF s # <<>> /\ \A i \in 1..Len(s) : s[i] \in Digits
            THEN [ok |-> TRUE, n |-> DigitsValue(s)]
            ELSE [ok |-> FALSE, n |-> 0]

\* Python truthiness of a payload value, as used by `a or b`
Truthy(v) ==
    CASE v.t = "none" -> FALSE
      [] v.t = "int" -> v.n # 0
      [] v.t = "str" -> v.s # <<>>

\* --------------------------------------------------------------- Init
Init ==
    /\ connected_users = <<>>
    /\ user_typing = <<>>
    /\ rate_limit_store = <<>>
    /\ accepted = <<>>
    /\ messages = <<>>
    /\ sio_connected = {}
    /\ sio_rooms = [g \in Groups |-> {}]
    /\ nested_registered = FALSE
    /\ inflight = {}
    /\ clock = 0
    /\ last = Step("init", "s1", "ok", NoEmit)
    /\ group_chats = <<>>
    /\ group_members = <<>>
    /\ response = [op |-> "none", status |-> 0, body |-> <<>>]

\* --------------------------------------------------------------- helpers
\* dict with key k set to v
DictSet(d, k, v) == [x \in DOMAIN d \cup {k} |-> IF x = k THEN v ELSE d[x]]
\* dict.pop(k, None)
DictPop(d, k) == [x \in DOMAIN d \ {k} |-> d[x]]

\* the server forgets a sid: manager.disconnect removes it from every room
SioDisconnect(rooms, sid) == [g \in DOMAIN rooms |-> rooms[g] \ {sid}]

\* ---------------------------------------------------------------- connect
\* decode_token(token): raises on a token that is not a valid JWT;
\* decoded.get("sub") is None (0 here) when the token has no subject
decode_token(token) ==
    [ok |-> token.kind \in {"nosub", "ok"},
     sub |-> IF token.kind = "ok" THEN token.sub ELSE 0]

\* handle_connect returns False: no token, decode_token raised, or the
\* decoded token has no subject
ConnectRefused_NoSubCheck(token) ==
    \/ token.kind = "missing"
    \/ ~decode_token(token).ok

ConnectRefused(token) ==
    \/ token.kind = "missing"
    \/ ~decode_token(token).ok
    \/ decode_token(token).sub = 0

handle_connect(sid, token) ==
    /\ sid \notin sio_connected
    /\ \A h \in inflight : h.sid # sid
    /\ IF ConnectRefused(token)
       THEN \* the server refuses and forgets the connection
            /\ last' = Step("connect", sid, "refused", NoEmit)
            /\ UNCHANGED <<connected_users, sio_connected>>
       ELSE /\ connected_users' =
                  DictSet(connected_users, sid,
                          [user_id |-> decode_token(token).sub, rooms |-> {},
                           connected_at |-> clock])
            /\ sio_connected' = sio_connected \cup {sid}
            /\ last' = Step("connect", sid, "ok",
                            [event |-> "connected", private |-> TRUE,
                             room |-> 0, to |-> {sid},
                             payload |-> [NoPayload EXCEPT !.userId =
                                             decode_token(token).sub]])
    /\ UNCHANGED <<user_typing, rate_limit_store, accepted, messages, sio_rooms,
                   nested_registered, inflight, clock,
                   group_chats, group_members, response>>

\* handle_connect has no check for a sid that is already registered: run
\* again for such a sid (a repeated CONNECT on the same handshake, hence
\* with the same token), it assigns connected_users[request.sid] anew.
handle_connect_again(sid) ==
    /\ sid \in DOMAIN connected_users
    /\ sid \in sio_connected
    /\ connected_users' =
          DictSet(connected_users, sid,
                  [user_id |-> connected_users[sid].user_id, rooms |-> {},
                   connected_at |-> clock])
    /\ last' = Step("connect", sid, "ok",
                    [event |-> "connected", private |-> TRUE,
                     room |-> 0, to |-> {sid},
                     payload |-> [NoPayload EXCEPT !.userId =
                                     connected_users[sid].user_id]])
    /\ UNCHANGED <<user_typing, rate_limit_store, accepted, messages,
                   sio_connected, sio_rooms, nested_registered, inflight,
                   clock, group_chats, group_members, response>>

\* ------------------------------------------------------------- disconnect
\* rooms of the entry connected_users holds for the sid, none without one
PoppedRooms(sid) ==
    IF sid \in DOMAIN connected_users THEN connected_users[sid].rooms ELSE {}

handle_disconnect_Get(sid) ==
    /\ sid \in sio_connected
    /\ UNCHANGED connected_users
    /\ sio_connected' = sio_connected \ {sid}
    /\ sio_rooms' = SioDisconnect(sio_rooms, sid)
    /\ last' = [Step("disconnect", sid, "ok", NoEmit)
                   EXCEPT !.rooms = PoppedRooms(sid)]
    /\ UNCHANGED <<user_typing, rate_limit_store, accepted, messages,
                   nested_registered, inflight, clock,
                   group_chats, group_members, response>>

\* The handler also runs for a sid that has no entry (a repeated
\* disconnect): pop(sid, None) returns None and the else branch only logs.
handle_disconnect(sid) ==
    /\ connected_users' = DictPop(connected_users, sid)
    /\ sio_connected' = sio_connected \ {sid}
    /\ sio_rooms' = SioDisconnect(sio_rooms, sid)
    /\ last' = [Step("disconnect", sid,
                     IF sid \in DOMAIN connected_users THEN "ok"
                     ELSE "unknown", NoEmit)
                   EXCEPT !.rooms = PoppedRooms(sid)]
    /\ UNCHANGED <<user_typing, rate_limit_store, accepted, messages,
                   nested_registered, inflight, clock,
                   group_chats, group_members, response>>

\* ------------------------------------------------------ event dispatch
\* The Socket.IO server dispatches an event only for a sid it holds as
\* connected; an event of a refused or closed connection is dropped.
sio_drop_event(sid, op) ==
    /\ sid \notin sio_connected
    /\ last' = Step(op, sid, "not_connected", NoEmit)
    /\ UNCHANGED <<connected_users, user_typing, rate_limit_store, accepted,
                   messages,
                   sio_connected, sio_rooms, nested_registered, inflight,
                   clock,
                   group_chats, group_members, response>>

\* A handler raised outside any try block: with on_error_default registered
\* socket_error_handler logs it, otherwise the server logs it; nothing is
\* emitted either way.
socket_error_handler(op, sid) ==
    /\ last' = Step(op, sid, "exception", NoEmit)
    /\ UNCHANGED <<connected_users, user_typing, rate_limit_store, accepted,
                   messages,
                   sio_connected, sio_rooms, nested_registered, inflight,
                   clock,
                   group_chats, group_members, response>>

\* ------------------------------------------------------------ join / leave
\* connected_users[request.sid]["rooms"].add(room), if the sid is known
RegistryAdd_Forgot(cu, sid, room) == cu

RegistryAdd_Replace(cu, sid, room) ==
    IF sid \in DOMAIN cu
    THEN [cu EXCEPT ![sid].rooms = {room}]
    ELSE cu

RegistryAdd_Rebuild(cu, sid, room) ==
    IF sid \in DOMAIN cu
    THEN [cu EXCEPT ![sid] = [user_id |-> 0, rooms |-> cu[sid].rooms \cup {room},
                              connected_at |-> cu[sid].connected_at]]
    ELSE cu

RegistryAdd(cu, sid, room) ==
    IF sid \in DOMAIN cu
    THEN [cu EXCEPT ![sid].rooms = @ \cup {room}]
    ELSE cu

\* connected_users[request.sid]["rooms"].discard(room), if the sid is known
RegistryDiscard(cu, sid, room) ==
    IF sid \in DOMAIN cu
    THEN [cu EXCEPT ![sid].rooms = @ \ {room}]
    ELSE cu

handle_join_group(sid, groupId) ==
    /\ sid \in sio_connected
    /\ LET group_id == int(groupId) IN
       IF ~group_id.ok
       THEN socket_error_handler("join_group", sid)
       ELSE /\ sio_rooms' = [sio_rooms EXCEPT ![group_id.n] = @ \cup {sid}]
            /\ connected_users' = RegistryAdd(connected_users, sid, group_id.n)
            /\ last' = [Step("join_group", sid, "ok",
                             EmitPrivate("joined", sid,
                                 [NoPayload EXCEPT !.groupId = group_id.n]))
                           EXCEPT !.rooms = PoppedRooms(sid)]
            /\ UNCHANGED <<user_typing, rate_limit_store, accepted, messages,
                           sio_connected, nested_registered, inflight, clock,
                           group_chats, group_members, response>>

handle_leave_group_NoLeaveRoom(sid, groupId) ==
    /\ sid \in sio_connected
    /\ LET group_id == int(groupId) IN
       IF ~group_id.ok
       THEN socket_error_handler("leave_group", sid)
       ELSE /\ connected_users' =
                  RegistryDiscard(connected_users, sid, group_id.n)
            /\ last' = [Step("leave_group", sid, "ok",
                             EmitPrivate("left", sid,
                                 [NoPayload EXCEPT !.groupId = group_id.n]))
                           EXCEPT !.rooms = PoppedRooms(sid)]
            /\ UNCHANGED <<user_typing, rate_limit_store, accepted, messages,
                           sio_connected, sio_rooms, nested_registered,
                           inflight, clock,
                           group_chats, group_members, response>>

handle_leave_group_Remove(sid, groupId) ==
    /\ sid \in sio_connected
    /\ LET group_id == int(groupId) IN
       IF ~group_id.ok
       THEN socket_error_handler("leave_group", sid)
       ELSE IF group_id.n \notin PoppedRooms(sid)
       THEN socket_error_handler("leave_group", sid)
       ELSE /\ sio_rooms' = [sio_rooms EXCEPT ![group_id.n] = @ \ {sid}]
            /\ connected_users' =
                  RegistryDiscard(connected_users, sid, group_id.n)
            /\ last' = [Step("leave_group", sid, "ok",
                             EmitPrivate("left", sid,
                                 [NoPayload EXCEPT !.groupId = group_id.n]))
                           EXCEPT !.rooms = PoppedRooms(sid)]
            /\ UNCHANGED <<user_typing, rate_limit_store, accepted, messages,
                           sio_connected, nested_registered, inflight, clock,
                           group_chats, group_members, response>>

handle_leave_group(sid, groupId) ==
    /\ sid \in sio_connected
    /\ LET group_id == int(groupId) IN
       IF ~group_id.ok
       THEN socket_error_handler("leave_group", sid)
       ELSE /\ sio_rooms' = [sio_rooms EXCEPT ![group_id.n] = @ \ {sid}]
            /\ connected_users' =
                  RegistryDiscard(connected_users, sid, group_id.n)
            /\ last' = [Step("leave_group", sid, "ok",
                             EmitPrivate("left", sid,
                                 [NoPayload EXCEPT !.groupId = group_id.n]))
                           EXCEPT !.rooms = PoppedRooms(sid)]
            /\ UNCHANGED <<user_typing, rate_limit_store, accepted, messages,
                           sio_connected, nested_registered, inflight, clock,
                           group_chats, group_members, response>>

\* ------------------------------------------------------------------ typing
\* connected_users.get(request.sid, {}).get("user_id"); 0 stands for None
SessionUserId(sid) ==
    IF sid \in DOMAIN connected_users
    THEN connected_users[sid].user_id ELSE 0

\* user_typing.setdefault(group_id, set())
TypingSet(group_id) ==
    IF group_id \in DOMAIN user_typing THEN user_typing[group_id] ELSE {}

\* The typing handlers and the default error handler are defined in the
\* body of handle_send_message, so they exist once it has run.
sio_no_handler(sid, op) ==
    /\ sid \in sio_connected
    /\ ~nested_registered
    /\ last' = Step(op, sid, "no_handler", NoEmit)
    /\ UNCHANGED <<connected_users, user_typing, rate_limit_store, accepted,
                   messages,
                   sio_connected, sio_rooms, nested_registered, inflight,
                   clock,
                   group_chats, group_members, response>>

handle_typing(sid, data) ==
    /\ sid \in sio_connected
    /\ nested_registered
    /\ LET group_id == int(data.groupId)
           user_id == SessionUserId(sid) IN
       IF ~group_id.ok
       THEN socket_error_handler("typing", sid)
       ELSE IF user_id = 0
       THEN /\ last' = Step("typing", sid, "ignored", NoEmit)
            /\ UNCHANGED <<connected_users, user_typing, rate_limit_store,
                           accepted, messages, sio_connected, sio_rooms,
                           nested_registered, inflight, clock,
                           group_chats, group_members, response>>
       ELSE /\ user_typing' = DictSet(user_typing, group_id.n,
                                      TypingSet(group_id.n) \cup {user_id})
            /\ last' = Step("typing", sid, "ok",
                            safe_emit("user_typing", group_id.n, sid, FALSE,
                                [NoPayload EXCEPT !.groupId = group_id.n,
                                                  !.userId = user_id]))
            /\ UNCHANGED <<connected_users, rate_limit_store, accepted, messages,
                           sio_connected, sio_rooms, nested_registered,
                           inflight, clock,
                           group_chats, group_members, response>>

handle_stop_typing(sid, data) ==
    /\ sid \in sio_connected
    /\ nested_registered
    /\ LET group_id == int(data.group_id)
           user_id == SessionUserId(sid) IN
       IF ~group_id.ok
       THEN socket_error_handler("stop_typing", sid)
       ELSE IF user_id = 0
       THEN /\ last' = Step("stop_typing", sid, "ignored", NoEmit)
            /\ UNCHANGED <<connected_users, user_typing, rate_limit_store,
                           accepted, messages, sio_connected, sio_rooms,
                           nested_registered, inflight, clock,
                           group_chats, group_members, response>>
       ELSE /\ user_typing' = DictSet(user_typing, group_id.n,
                                      TypingSet(group_id.n) \ {user_id})
            /\ last' = Step("stop_typing", sid, "ok",
                            safe_emit("user_stop_typing", group_id.n, sid,
                                FALSE,
                                [NoPayload EXCEPT !.groupId = group_id.n,
                                                  !.userId = user_id]))
            /\ UNCHANGED <<connected_users, rate_limit_store, accepted, messages,
                           sio_connected, sio_rooms, nested_registered,
                           inflight, clock,
                           group_chats, group_members, response>>

\* ------------------------------------------------------------ rate limit
RateKey(user_id, group_id) == <<user_id, group_id>>     \* f"{uid}:{gid}"

RECURSIVE PruneOld_Inclusive(_, _)
PruneOld_Inclusive(ts, current_time) ==
    IF ts = <<>> THEN <<>>
    ELSE IF current_time - Head(ts) <= RateWindow
         THEN <<Head(ts)>> \o PruneOld_Inclusive(Tail(ts), current_time)
         ELSE PruneOld_Inclusive(Tail(ts), current_time)

RECURSIVE PruneOld_FixedWindow(_, _)
PruneOld_FixedWindow(ts, current_time) ==
    IF ts = <<>> THEN <<>>
    ELSE IF Head(ts) \div RateWindow = current_time \div RateWindow
         THEN <<Head(ts)>> \o PruneOld_FixedWindow(Tail(ts), current_time)
         ELSE PruneOld_FixedWindow(Tail(ts), current_time)

\* [t for t in store[key] if current_time - t < 60]
RECURSIVE PruneOld(_, _)
PruneOld(ts, current_time) ==
    IF ts = <<>> THEN <<>>
    ELSE IF current_time - Head(ts) < RateWindow
         THEN <<Head(ts)>> \o PruneOld(Tail(ts), current_time)
         ELSE PruneOld(Tail(ts), current_time)

_is_rate_limited_RecordFirst(store, user_id, group_id, current_time) ==
    LET key == RateKey(user_id, group_id)
        old == IF key \in DOMAIN store THEN store[key] ELSE <<>>
        kept == PruneOld(old, current_time)
    IN  [limited |-> Len(kept) >= RateLimit,
         store |-> DictSet(store, key, Append(kept, current_time))]

_is_rate_limited_OffByOne(store, user_id, group_id, current_time) ==
    LET key == RateKey(user_id, group_id)
        old == IF key \in DOMAIN store THEN store[key] ELSE <<>>
        kept == PruneOld(old, current_time)
    IN  IF Len(kept) > RateLimit
        THEN [limited |-> TRUE, store |-> DictSet(store, key, kept)]
        ELSE [limited |-> FALSE,
              store |-> DictSet(store, key, Append(kept, current_time))]

\* _is_rate_limited(user_id, group_id): the verdict and the store it leaves
_is_rate_limited(store, user_id, group_id, current_time) ==
    LET key == RateKey(user_id, group_id)
        old == IF key \in DOMAIN store THEN store[key] ELSE <<>>
        kept == PruneOld(old, current_time)
    IN  IF Len(kept) >= RateLimit
        THEN [limited |-> TRUE, store |-> DictSet(store, key, kept)]
        ELSE [limited |-> FALSE,
              store |-> DictSet(store, key, Append(kept, current_time))]

\* ------------------------------------------------------------ send_message
\* data.get("groupId") or data.get("group_id")
SendGroupId(data) == IF Truthy(data.groupId) THEN data.groupId
                     ELSE data.group_id

ValidateSend_NoStrip(sid, data) ==
    LET group_id == SendGroupId(data) IN
    IF SessionUserId(sid) = 0 THEN [err |-> "unauthenticated", gid |-> 0]
    ELSE IF group_id.t = "none" THEN [err |-> "missing_group", gid |-> 0]
    ELSE IF data.content.t = "none" THEN [err |-> "missing_content", gid |-> 0]
    ELSE IF ~int(group_id).ok THEN [err |-> "bad_group", gid |-> 0]
    ELSE [err |-> "", gid |-> int(group_id).n]

ValidateSend_NoAuthCheck(sid, data) ==
    LET group_id == SendGroupId(data) IN
    IF group_id.t = "none" THEN [err |-> "missing_group", gid |-> 0]
    ELSE IF data.content.t = "none" THEN [err |-> "missing_content", gid |-> 0]
    ELSE IF ~int(group_id).ok THEN [err |-> "bad_group", gid |-> 0]
    ELSE IF strip(data.content.s) = <<>>
         THEN [err |-> "empty_content", gid |-> int(group_id).n]
    ELSE [err |-> "", gid |-> int(group_id).n]

\* The checks of handle_send_message up to the rate limiter, in order:
\* the error raised ("" for none) and the parsed group id.
ValidateSend(sid, data) ==
    LET group_id == SendGroupId(data) IN
    IF SessionUserId(sid) = 0 THEN [err |-> "unauthenticated", gid |-> 0]
    ELSE IF group_id.t = "none" THEN [err |-> "missing_group", gid |-> 0]
    ELSE IF data.content.t = "none" THEN [err |-> "missing_content", gid |-> 0]
    ELSE IF ~int(group_id).ok THEN [err |-> "bad_group", gid |-> 0]
    ELSE IF strip(data.content.s) = <<>>
         THEN [err |-> "empty_content", gid |-> int(group_id).n]
    ELSE [err |-> "", gid |-> int(group_id).n]

\* timestamps held by the rate limiter, over all keys
RECURSIVE StampCount(_)
StampCount(store) ==
    IF DOMAIN store = {} THEN 0
    ELSE LET k == CHOOSE x \in DOMAIN store : TRUE
         IN Len(store[k]) + StampCount(DictPop(store, k))

\* smallest handler number not in use
FreeHid == CHOOSE n \in 1..(Cardinality(inflight) + 1) :
              /\ \A h \in inflight : h.hid # n
              /\ \A m \in 1..(n - 1) : \E h \in inflight : h.hid = m

SendFail_Broadcast(sid, outcome) ==
    /\ last' = Step("send_message", sid, outcome,
                    [EmitPrivate("send_error", sid, NoPayload)
                        EXCEPT !.private = FALSE, !.to = sio_connected])
    /\ nested_registered' = TRUE

\* except Exception as e: safe_emit("send_error", ..., room=request.sid);
\* the handler then returns through the nested definitions
SendFail(sid, outcome) ==
    /\ last' = Step("send_message", sid, outcome,
                    EmitPrivate("send_error", sid, NoPayload))
    /\ nested_registered' = TRUE

\* history of the limiter's verdicts: the time of every allowed call
Allowed(log, user_id, group_id, current_time) ==
    LET key == RateKey(user_id, group_id)
        old == IF key \in DOMAIN log THEN log[key] ELSE <<>>
    IN  DictSet(log, key, Append(old, current_time))

\* handle_send_message up to db.session.commit(), run by handler h for the
\* payload data of session sid; rest is the other handlers in flight
SendRun(hid, sid, data, rest) ==
    /\ LET v == ValidateSend(sid, data)
           user_id == SessionUserId(sid)
           rl == _is_rate_limited(rate_limit_store, user_id, v.gid, clock)
       IN
       IF v.err # ""
       THEN /\ SendFail(sid, v.err)
            /\ inflight' = rest
            /\ UNCHANGED <<rate_limit_store, accepted>>
       ELSE /\ rate_limit_store' = rl.store
            /\ IF rl.limited
               THEN /\ SendFail(sid, "rate_limited")
                    /\ inflight' = rest
                    /\ UNCHANGED accepted
               ELSE /\ accepted' = Allowed(accepted, user_id, v.gid, clock)
                    /\ inflight' = rest \cup
                          {[hid |-> hid, sid |-> sid, pc |-> "commit",
                            data |-> data,
                            user_id |-> user_id, group_id |-> v.gid,
                            content |-> strip(data.content.s),
                            created_at |-> clock, id |-> 0]}
                    /\ last' = Step("send_message", sid, "pending", NoEmit)
                    /\ UNCHANGED nested_registered
    /\ UNCHANGED <<connected_users, user_typing, messages, sio_connected,
                   sio_rooms, clock,
                   group_chats, group_members, response>>

\* A send_message event of a connected session whose handler starts at
\* once. A call the limiter allows is explored while fewer than stampCap
\* timestamps are held and fewer than msgCap rows are stored or pending.
SendBegin(sid, data, msgCap, stampCap) ==
    /\ sid \in sio_connected
    /\ LET v == ValidateSend(sid, data)
           rl == _is_rate_limited(rate_limit_store, SessionUserId(sid),
                                  v.gid, clock)
       IN  \/ v.err # ""
           \/ rl.limited
           \/ /\ StampCount(rate_limit_store) < stampCap
              /\ Len(messages) + Cardinality(inflight) < msgCap
    /\ SendRun(FreeHid, sid, data, inflight)

\* The server accepts a send_message event of a connected session and
\* spawns its handler (async_handlers), which has not started yet.
SendDispatch(sid, data, cap) ==
    /\ sid \in sio_connected
    /\ StampCount(rate_limit_store)
          + Cardinality({h \in inflight : h.pc = "start"}) < cap
    /\ inflight' = inflight \cup
          {[hid |-> FreeHid, sid |-> sid, pc |-> "start", data |-> data,
            user_id |-> 0, group_id |-> 0, content |-> <<>>,
            created_at |-> 0, id |-> 0]}
    /\ last' = Step("send_message", sid, "dispatched", NoEmit)
    /\ UNCHANGED <<connected_users, user_typing, rate_limit_store, accepted,
                   messages, sio_connected, sio_rooms, nested_registered,
                   clock,
                   group_chats, group_members, response>>

\* the spawned handler starts: whatever happened to the session meanwhile
SendStart(h) ==
    /\ h \in inflight
    /\ h.pc = "start"
    /\ SendRun(h.hid, h.sid, h.data, inflight \ {h})

SendCommit_EmitOutsideTry(h, committed) ==
    /\ h \in inflight
    /\ h.pc = "commit"
    /\ IF committed
       THEN /\ messages' = Append(messages,
                  [id |-> Len(messages) + 1, group_chat_id |-> h.group_id,
                   sender_id |-> h.user_id, content |-> h.content,
                   created_at |-> h.created_at])
            /\ inflight' = (inflight \ {h}) \cup
                  {[h EXCEPT !.pc = "lookup", !.id = Len(messages) + 1]}
            /\ last' = Step("send_message", h.sid, "committed", NoEmit)
       ELSE /\ inflight' = (inflight \ {h}) \cup {[h EXCEPT !.pc = "lookup"]}
            /\ last' = Step("send_message", h.sid, "persist_failed",
                            EmitPrivate("send_error", h.sid, NoPayload))
            /\ UNCHANGED messages
    /\ UNCHANGED <<connected_users, user_typing, rate_limit_store, accepted,
                   sio_connected, sio_rooms, clock, nested_registered,
                   group_chats, group_members, response>>

\* db.session.add(message); db.session.commit(): the row is stored and gets
\* its id, or the commit raises and the except branch reports it
SendCommit(h, committed) ==
    /\ h \in inflight
    /\ h.pc = "commit"
    /\ IF committed
       THEN /\ messages' = Append(messages,
                  [id |-> Len(messages) + 1, group_chat_id |-> h.group_id,
                   sender_id |-> h.user_id, content |-> h.content,
                   created_at |-> h.created_at])
            /\ inflight' = (inflight \ {h}) \cup
                  {[h EXCEPT !.pc = "lookup", !.id = Len(messages) + 1]}
            /\ last' = Step("send_message", h.sid, "committed", NoEmit)
            /\ UNCHANGED nested_registered
       ELSE /\ SendFail(h.sid, "persist_failed")
            /\ inflight' = inflight \ {h}
            /\ UNCHANGED messages
    /\ UNCHANGED <<connected_users, user_typing, rate_limit_store, accepted,
                   sio_connected, sio_rooms, clock,
                   group_chats, group_members, response>>

\* message_data
MessageData_PayloadSender(h) ==
    [id |-> h.id, groupId |-> h.group_id, userId |-> h.data.userId.n,
     content |-> h.content]

MessageData(h) ==
    [id |-> h.id, groupId |-> h.group_id, userId |-> h.user_id,
     content |-> h.content]

SendBroadcast_OnlyIfConnected(h) ==
    /\ h \in inflight
    /\ h.pc = "lookup"
    /\ inflight' = inflight \ {h}
    /\ last' = Step("send_message", h.sid, "sent",
                    IF h.sid \in DOMAIN connected_users
                    THEN safe_emit("new_message", h.group_id, h.sid, TRUE,
                                   MessageData(h))
                    ELSE NoEmit)
    /\ nested_registered' = TRUE
    /\ UNCHANGED <<connected_users, user_typing, rate_limit_store, accepted,
                   messages, sio_connected, sio_rooms, clock,
                   group_chats, group_members, response>>

\* after User.query.get(user_id): safe_emit("new_message", message_data,
\* room=f"group_{group_id}"), then the nested handlers are defined
SendBroadcast(h) ==
    /\ h \in inflight
    /\ h.pc = "lookup"
    /\ inflight' = inflight \ {h}
    /\ last' = Step("send_message", h.sid, "sent",
                    safe_emit("new_message", h.group_id, h.sid, TRUE,
                              MessageData(h)))
    /\ nested_registered' = TRUE
    /\ UNCHANGED <<connected_users, user_typing, rate_limit_store, accepted,
                   messages,
                   sio_connected, sio_rooms, clock,
                   group_chats, group_members, response>>

\* -------------------------------------------------------------------- time
Tick(times) ==
    /\ \E t \in times : t > clock /\ clock' = t
    /\ UNCHANGED <<connected_users, user_typing, rate_limit_store, accepted,
                   messages,
                   sio_connected, sio_rooms, nested_registered, inflight,
                   last, group_chats, group_members, response>>

\* ================================================================== REST
\* The REST endpoints of api/v1/group_chats.py and api/v1/messages.py. A
\* request is one step: the handler runs on its own database session and
\* commits once. current user: get_jwt_identity(), a user id.
MaxRestMsgs == 2    \* rows of group_messages (SpecMsgs)

AbsentV == [t |-> "absent"]                \* key not in the JSON body
BoolV(b) == [t |-> "bool", b |-> b]

\* data.get(key, default)
Get(v, default) == IF v.t = "absent" THEN default ELSE v

DefaultMaxMembers == 100     \* data.get("max_members", 100)
DefaultPage == 1             \* request.args.get('page', 1, type=int)
DefaultPerPage == 50         \* request.args.get('per_page', 50, type=int)
MaxContentLen == 1000        \* len(content) > 1000

\* the ids group chats get
RestGroups == {1}

SocketVars == <<connected_users, user_typing, rate_limit_store, accepted,
                sio_connected, sio_rooms, nested_registered, inflight, last>>

Respond(op, status, body) ==
    response' = [op |-> op, status |-> status, body |-> body]

\* GroupMember.query.filter_by(group_chat_id=, user_id=).first(): the
\* unique constraint (group_chat_id, user_id) leaves at most one row
MemberRows(group_id, user_id) ==
    {i \in DOMAIN group_members :
        /\ group_members[i].group_chat_id = group_id
        /\ group_members[i].user_id = user_id}

ActiveMemberRows(group_id, user_id) ==
    {i \in MemberRows(group_id, user_id) : group_members[i].is_active}

\* GroupMember.query.filter_by(group_chat_id=, is_active=True).count()
ActiveCount(group_id) ==
    Cardinality({i \in DOMAIN group_members :
                    /\ group_members[i].group_chat_id = group_id
                    /\ group_members[i].is_active})

\* ... filter_by(group_chat_id=, group_role="admin", is_active=True).count()
AdminCount(group_id) ==
    Cardinality({i \in DOMAIN group_members :
                    /\ group_members[i].group_chat_id = group_id
                    /\ group_members[i].group_role = "admin"
                    /\ group_members[i].is_active})

\* GroupMember(group_chat_id=, user_id=, group_role=): is_active defaults to
\* True
NewMember(group_id, user_id, role) ==
    [group_chat_id |-> group_id, user_id |-> user_id, group_role |-> role,
     is_active |-> TRUE]

create_group_chat(user_id, max_members, is_public) ==
    /\ Len(group_chats) + 1 \in RestGroups
    /\ group_chats' = Append(group_chats,
          [max_members |-> Get(max_members, IntV(DefaultMaxMembers)).n,
           is_public |-> Get(is_public, BoolV(TRUE)).b,
           created_by_id |-> user_id])
    /\ group_members' = Append(group_members,
          NewMember(Len(group_chats) + 1, user_id, "admin"))
    /\ Respond("create_group_chat", 201, <<>>)
    /\ UNCHANGED <<messages, clock>>
    /\ UNCHANGED SocketVars

join_group_chat(user_id, group_id) ==
    /\ IF group_id \notin DOMAIN group_chats
       THEN /\ Respond("join_group_chat", 404, <<>>)
            /\ UNCHANGED group_members
       ELSE IF ~group_chats[group_id].is_public
       THEN /\ Respond("join_group_chat", 403, <<>>)
            /\ UNCHANGED group_members
       ELSE IF MemberRows(group_id, user_id) # {}
       THEN LET i == CHOOSE x \in MemberRows(group_id, user_id) : TRUE IN
            IF group_members[i].is_active
            THEN /\ Respond("join_group_chat", 400, <<>>)
                 /\ UNCHANGED group_members
            ELSE /\ group_members' =
                       [group_members EXCEPT ![i].is_active = TRUE,
                                             ![i].group_role = "member"]
                 /\ Respond("join_group_chat", 200, <<>>)
       ELSE IF ActiveCount(group_id) >= group_chats[group_id].max_members
       THEN /\ Respond("join_group_chat", 400, <<>>)
            /\ UNCHANGED group_members
       ELSE /\ group_members' = Append(group_members,
                  NewMember(group_id, user_id, "member"))
            /\ Respond("join_group_chat", 200, <<>>)
    /\ UNCHANGED <<group_chats, messages, clock>>
    /\ UNCHANGED SocketVars

\* GroupMessage.validate_content, run when the constructor sets content:
\* raises ValueError or returns the stripped text
validate_content_NoCheck(content) ==
    IF content.t = "none" THEN [ok |-> TRUE, content |-> <<>>]
    ELSE [ok |-> TRUE, content |-> content.s]

validate_content(content) ==
    IF content.t = "none" THEN [ok |-> FALSE, content |-> <<>>]
    ELSE IF content.s = <<>> \/ Len(strip(content.s)) = 0
    THEN [ok |-> FALSE, content |-> <<>>]
    ELSE [ok |-> TRUE, content |-> strip(content.s)]

\* the row a committed GroupMessage becomes; created_at is the time of the
\* request (BaseModel's default, or the handler's datetime.now)
NewMessage(group_id, user_id, content) ==
    [id |-> Len(messages) + 1, group_chat_id |-> group_id,
     sender_id |-> user_id, content |-> content, created_at |-> clock]

\* POST /group-chats/<int:group_id>/messages
send_message(user_id, group_id, content) ==
    /\ LET v == validate_content(Get(content, NoneV)) IN
       IF ActiveMemberRows(group_id, user_id) = {}
       THEN /\ Respond("send_message", 403, <<>>)
            /\ UNCHANGED messages
       ELSE IF ~v.ok
       THEN \* ValueError out of the constructor: Flask answers 500
            /\ Respond("send_message", 500, <<>>)
            /\ UNCHANGED messages
       ELSE /\ Len(messages) < MaxRestMsgs
            /\ messages' = Append(messages,
                               NewMessage(group_id, user_id, v.content))
            /\ Respond("send_message", 201, <<Len(messages) + 1>>)
    /\ UNCHANGED <<group_chats, group_members, clock>>
    /\ UNCHANGED SocketVars

\* POST /messages/<group_id>
send_group_message(user_id, group_id, content) ==
    /\ LET c == Get(content, StrV(<<>>))
           v == validate_content(StrV(strip(c.s)))
       IN
       IF ~int(group_id).ok
       THEN /\ Respond("send_group_message", 400, <<>>)
            /\ UNCHANGED messages
       ELSE IF c.t = "none"
       THEN \* None.strip(): AttributeError, caught, rollback
            /\ Respond("send_group_message", 500, <<>>)
            /\ UNCHANGED messages
       ELSE IF strip(c.s) = <<>>
       THEN /\ Respond("send_group_message", 400, <<>>)
            /\ UNCHANGED messages
       ELSE IF Len(strip(c.s)) > MaxContentLen
       THEN /\ Respond("send_group_message", 400, <<>>)
            /\ UNCHANGED messages
       ELSE IF int(group_id).n \notin DOMAIN group_chats
       THEN /\ Respond("send_group_message", 404, <<>>)
            /\ UNCHANGED messages
       ELSE IF ~v.ok
       THEN /\ Respond("send_group_message", 500, <<>>)
            /\ UNCHANGED messages
       ELSE /\ Len(messages) < MaxRestMsgs
            /\ messages' = Append(messages,
                  NewMessage(int(group_id).n, user_id, v.content))
            /\ Respond("send_group_message", 201, <<Len(messages) + 1>>)
    /\ UNCHANGED <<group_chats, group_members, clock>>
    /\ UNCHANGED SocketVars

\* GroupMessage.query.filter_by(group_chat_id=, is_active=True): no handler
\* here clears is_active of a message
GroupRows(group_id) ==
    {i \in DOMAIN messages : messages[i].group_chat_id = group_id}

\* .order_by(GroupMessage.created_at.asc() / .desc()): the row ids in every
\* order the database may give, rows of equal created_at in any order
OrderBy(rows, descending) ==
    {q \in [1..Cardinality(rows) -> rows] :
        /\ \A i, j \in DOMAIN q : i # j => q[i] # q[j]
        /\ \A i, j \in DOMAIN q :
              i < j => IF descending
                       THEN messages[q[i]].created_at
                               >= messages[q[j]].created_at
                       ELSE messages[q[i]].created_at
                               <= messages[q[j]].created_at}

\* .paginate(page=, per_page=, error_out=False).items
Paginate(q, page, per_page) ==
    SubSeq(q, (page - 1) * per_page + 1,
           IF page * per_page < Len(q) THEN page * per_page ELSE Len(q))

\* GET /group-chats/<int:group_id>/messages
get_messages(user_id, group_id) ==
    /\ IF ActiveMemberRows(group_id, user_id) = {}
       THEN Respond("get_messages", 403, <<>>)
       ELSE \E q \in OrderBy(GroupRows(group_id), FALSE) :
               Respond("get_messages", 200, q)
    /\ UNCHANGED <<group_chats, group_members, messages, clock>>
    /\ UNCHANGED SocketVars

\* GET /messages/<group_id>?page=&per_page=
get_group_messages(user_id, group_id, page, per_page) ==
    /\ IF ~int(group_id).ok
       THEN Respond("get_group_messages", 400, <<>>)
       ELSE IF int(group_id).n \notin DOMAIN group_chats
       THEN Respond("get_group_messages", 404, <<>>)
       ELSE \E q \in OrderBy(GroupRows(int(group_id).n), TRUE) :
               Respond("get_group_messages", 200,
                       Paginate(q, Get(page, IntV(DefaultPage)).n,
                                Get(per_page, IntV(DefaultPerPage)).n))
    /\ UNCHANGED <<group_chats, group_members, messages, clock>>
    /\ UNCHANGED SocketVars

\* PUT /group-chats/<int:group_id>
update_group_chat(user_id, group_id, max_members, is_public) ==
    /\ IF group_id \notin DOMAIN group_chats
       THEN /\ Respond("update_group_chat", 404, <<>>)
            /\ UNCHANGED group_chats
       ELSE IF \/ ActiveMemberRows(group_id, user_id) = {}
               \/ \E i \in ActiveMemberRows(group_id, user_id) :
                     group_members[i].group_role # "admin"
       THEN /\ Respond("update_group_chat", 403, <<>>)
            /\ UNCHANGED group_chats
       ELSE /\ group_chats' =
                  [group_chats EXCEPT
                      ![group_id].max_members =
                          Get(max_members, IntV(@)).n,
                      ![group_id].is_public = Get(is_public, BoolV(@)).b]
            /\ Respond("update_group_chat", 200, <<>>)
    /\ UNCHANGED <<group_members, messages, clock>>
    /\ UNCHANGED SocketVars

\* POST /group-chats/<int:group_id>/leave
leave_group_chat(user_id, group_id) ==
    /\ IF ActiveMemberRows(group_id, user_id) = {}
       THEN /\ Respond("leave_group_chat", 400, <<>>)
            /\ UNCHANGED group_members
       ELSE LET i == CHOOSE x \in ActiveMemberRows(group_id, user_id) : TRUE
            IN
            IF group_members[i].group_role = "admin"
                  /\ AdminCount(group_id) = 1
            THEN /\ Respond("leave_group_chat", 400, <<>>)
                 /\ UNCHANGED group_members
            ELSE /\ group_members' =
                       [group_members EXCEPT ![i].is_active = FALSE]
                 /\ Respond("leave_group_chat", 200, <<>>)
    /\ UNCHANGED <<group_chats, messages, clock>>
    /\ UNCHANGED SocketVars

valid_roles == {"admin", "moderator", "member"}

\* PUT /group-chats/<int:group_id>/members/<int:member_id>/role
update_member_role(user_id, group_id, member_id, new_role) ==
    /\ IF \/ ActiveMemberRows(group_id, user_id) = {}
          \/ \E i \in ActiveMemberRows(group_id, user_id) :
                group_members[i].group_role # "admin"
       THEN /\ Respond("update_member_role", 403, <<>>)
            /\ UNCHANGED group_members
       ELSE IF ~(/\ member_id \in DOMAIN group_members
                 /\ group_members[member_id].group_chat_id = group_id
                 /\ group_members[member_id].is_active)
       THEN /\ Respond("update_member_role", 404, <<>>)
            /\ UNCHANGED group_members
       ELSE IF new_role \notin valid_roles
       THEN /\ Respond("update_member_role", 400, <<>>)
            /\ UNCHANGED group_members
       ELSE /\ group_members' =
                  [group_members EXCEPT ![member_id].group_role = new_role]
            /\ Respond("update_member_role", 200, <<>>)
    /\ UNCHANGED <<group_chats, messages, clock>>
    /\ UNCHANGED SocketVars

\* DELETE /group-chats/<int:group_id>/members/<int:member_id>
remove_member(user_id, group_id, member_id) ==
    /\ IF \/ ActiveMemberRows(group_id, user_id) = {}
          \/ \E i \in ActiveMemberRows(group_id, user_id) :
                group_members[i].group_role # "admin"
       THEN /\ Respond("remove_member", 403, <<>>)
            /\ UNCHANGED group_members
       ELSE IF ~(/\ member_id \in DOMAIN group_members
                 /\ group_members[member_id].group_chat_id = group_id)
       THEN /\ Respond("remove_member", 404, <<>>)
            /\ UNCHANGED group_members
       ELSE IF /\ group_members[member_id].user_id = user_id
               /\ group_members[member_id].group_role = "admin"
               /\ AdminCount(group_id) = 1
       THEN /\ Respond("remove_member", 400, <<>>)
            /\ UNCHANGED group_members
       ELSE /\ group_members' =
                  [group_members EXCEPT ![member_id].is_active = FALSE]
            /\ Respond("remove_member", 200, <<>>)
    /\ UNCHANGED <<group_chats, messages, clock>>
    /\ UNCHANGED SocketVars

\* ------------------------------------------------------------ client input
\* values of the groupId field of join_group / leave_group
GroupIdInputs == {NoneV, IntV(1), IntV(2), StrV(<<"2">>), StrV(<<"x">>)}

\* payloads of typing / stop_typing: the two spellings of the group key
TypingInputs ==
    {[groupId |-> a, group_id |-> b] : a \in {NoneV, IntV(1)},
                                       b \in {NoneV, IntV(1)}}

EventNames == {"join_group", "leave_group", "send_message", "typing",
               "stop_typing"}

\* payloads of send_message
SendInputs ==
    {[groupId |-> IntV(1), group_id |-> NoneV, content |-> c] :
        c \in {NoneV, StrV(<<" ">>), StrV(<<" ", "h", " ">>)}}
    \cup {[groupId |-> a, group_id |-> NoneV, content |-> StrV(<<"h">>)] :
        a \in {NoneV, StrV(<<"x">>), StrV(<<"2">>)}}
    \cup {[groupId |-> IntV(0), group_id |-> IntV(2), content |-> NoneV]}

\* the sessions that send messages in Spec, one send at a time (overlapping
\* sends are SpecConc's); every session connects, joins, leaves and
\* disconnects
Senders == {"s1"}

Next ==
    \/ \E sid \in Sids, token \in Tokens : handle_connect(sid, token)
    \/ \E sid \in Sids : handle_disconnect(sid)
    \/ \E sid \in Sids, op \in EventNames : sio_drop_event(sid, op)
    \/ \E sid \in Sids, g \in GroupIdInputs : handle_join_group(sid, g)
    \/ \E sid \in Sids, g \in GroupIdInputs : handle_leave_group(sid, g)
    \/ \E sid \in Senders, d \in SendInputs :
          inflight = {} /\ SendBegin(sid, d, MaxStamps, MaxStamps)
    \/ \E h \in inflight, committed \in BOOLEAN : SendCommit(h, committed)
    \/ \E h \in inflight : SendBroadcast(h)

Spec == Init /\ [][Next]_vars

\* ---------------------------------------------------------------------
\* SpecRate: one sender (s1, user 1) and one listener (s2, user 2) on
\* group 1, with the clock observed at 0 and around the end of the window.
\* A send passes on to the commit while fewer than MaxRateMsgs rows are
\* stored or pending, so a window fills up through sends whose commit
\* fails: the limiter has recorded them all the same.
RateTimes == {0, RateWindow - 1, RateWindow}

RateToken(sid) == [kind |-> "ok", sub |-> IF sid = "s1" THEN 1 ELSE 2]

RateSendInputs ==
    {[groupId |-> IntV(1), group_id |-> NoneV, content |-> c] :
        c \in {StrV(<<"h">>), StrV(<<" ">>)}}

NextRate ==
    \/ \E sid \in Sids : clock = 0 /\ handle_connect(sid, RateToken(sid))
    \/ handle_join_group("s2", IntV(1))
    \/ \E d \in RateSendInputs :
          SendBegin("s1", d, MaxRateMsgs, RateLimit + 1)
    \/ \E h \in inflight, committed \in BOOLEAN : SendCommit(h, committed)
    \/ \E h \in inflight : SendBroadcast(h)
    \/ Tick(RateTimes)

SpecRate == Init /\ [][NextRate]_vars

\* ---------------------------------------------------------------------
\* SpecTyping: the typing indicators, on group 1, around the sends that
\* bring their handlers into existence.
TypingSendInputs ==
    {[groupId |-> IntV(1), group_id |-> NoneV, content |-> c] :
        c \in {NoneV, StrV(<<"h">>)}}

NextTyping ==
    \/ \E sid \in Sids, u \in Users :
          handle_connect(sid, [kind |-> "ok", sub |-> u])
    \/ \E sid \in Sids : handle_disconnect(sid)
    \/ \E sid \in Sids : handle_join_group(sid, IntV(1))
    \/ \E sid \in Sids : handle_leave_group(sid, IntV(1))
    \/ \E sid \in Sids, op \in {"typing", "stop_typing"} :
          sio_no_handler(sid, op)
    \/ \E sid \in Sids, d \in TypingInputs : handle_typing(sid, d)
    \/ \E sid \in Sids, d \in TypingInputs : handle_stop_typing(sid, d)
    \/ \E sid \in Sids, d \in TypingSendInputs :
          SendBegin(sid, d, MaxStamps, MaxStamps)
    \/ \E h \in inflight, committed \in BOOLEAN : SendCommit(h, committed)
    \/ \E h \in inflight : SendBroadcast(h)

SpecTyping == Init /\ [][NextTyping]_vars

\* ---------------------------------------------------------------------
\* SpecConc: both sessions send to group 1 and their handlers overlap. An
\* event is accepted first and its handler starts later, so a disconnect
\* can come between the two; at most MaxConc sends are explored, one at a
\* time for each session.
ConcTimes == {0, 1}

ConcSendInputs ==
    {[groupId |-> IntV(1), group_id |-> NoneV, content |-> StrV(<<"h">>)]}

NextConc ==
    \/ \E sid \in Sids : handle_connect(sid, RateToken(sid))
    \/ \E sid \in Sids : handle_disconnect(sid)
    \/ \E sid \in Sids : handle_join_group(sid, IntV(1))
    \/ \E sid \in Sids : handle_leave_group(sid, IntV(1))
    \/ \E sid \in Sids, d \in ConcSendInputs :
          /\ \A h \in inflight : h.sid # sid
          /\ SendDispatch(sid, d, MaxConc)
    \/ \E h \in inflight : SendStart(h)
    \/ \E h \in inflight, committed \in BOOLEAN : SendCommit(h, committed)
    \/ \E h \in inflight : SendBroadcast(h)
    \/ Tick(ConcTimes)

SpecConc == Init /\ [][NextConc]_vars

\* ---------------------------------------------------------------------
\* SpecReconnect: the session lifecycle with the connect handler also run
\* for a sid that is registered, at times 0 and 1.
NextReconnect ==
    \/ \E sid \in Sids : handle_connect(sid, RateToken(sid))
    \/ \E sid \in Sids : handle_connect_again(sid)
    \/ \E sid \in Sids : handle_disconnect(sid)
    \/ \E sid \in Sids, g \in {IntV(1), IntV(2)} : handle_join_group(sid, g)
    \/ \E sid \in Sids, g \in {IntV(1), IntV(2)} : handle_leave_group(sid, g)
    \/ Tick(ConcTimes)

SpecReconnect == Init /\ [][NextReconnect]_vars

\* ---------------------------------------------------------------------
\* SpecMsgs: the three ways a message is created. Group 1 is public with
\* room for both users; s1 is the socket sender; the time stays 0.
RestContents ==
    {AbsentV, NoneV, StrV(<<>>), StrV(<<" ">>), StrV(<<" ", "h", " ">>),
     StrV(<<"h">>)}

RestGroupPaths == {StrV(<<"1">>), StrV(<<"2">>), StrV(<<"x">>)}

\* payloads of the socket send_message, all for group 1
MsgsSendInputs ==
    {[groupId |-> IntV(1), group_id |-> NoneV, content |-> c] :
        c \in {NoneV, StrV(<<" ">>), StrV(<<" ", "h", " ">>)}}

NextMsgs ==
    \/ create_group_chat(1, IntV(2), AbsentV)
    \/ \E u \in Users : join_group_chat(u, 1)
    \/ \E u \in Users, g \in Groups, c \in RestContents :
          send_message(u, g, c)
    \/ \E u \in Users, g \in RestGroupPaths, c \in RestContents :
          send_group_message(u, g, c)
    \/ handle_connect("s1", RateToken("s1"))
    \/ \E d \in MsgsSendInputs :
          inflight = {} /\ SendBegin("s1", d, MaxRestMsgs, MaxStamps)
    \/ \E h \in inflight, committed \in BOOLEAN : SendCommit(h, committed)
    \/ \E h \in inflight : SendBroadcast(h)

SpecMsgs == Init /\ [][NextMsgs]_vars

\* ---------------------------------------------------------------------
\* SpecHistory: messages posted over REST at times 0 and 1 and read back
\* through both history endpoints.
HistoryReads ==
    {<<StrV(<<"1">>), AbsentV, AbsentV>>, <<StrV(<<"1">>), IntV(2), IntV(1)>>,
     <<StrV(<<"2">>), AbsentV, AbsentV>>, <<StrV(<<"x">>), AbsentV, AbsentV>>}

NextHistory ==
    \/ create_group_chat(1, IntV(2), AbsentV)
    \/ join_group_chat(2, 1)
    \/ \E u \in Users : send_message(u, 1, StrV(<<"h">>))
    \/ \E u \in Users : send_group_message(u, StrV(<<"1">>), StrV(<<"h">>))
    \/ \E u \in Users, g \in Groups : get_messages(u, g)
    \/ \E u \in Users, r \in HistoryReads :
          get_group_messages(u, r[1], r[2], r[3])
    \/ Tick(ConcTimes)

SpecHistory == Init /\ [][NextHistory]_vars

\* ---------------------------------------------------------------------
\* SpecSpoof: s1 is user 1 and s2 is user 2; every payload also carries
\* senderId and userId fields naming either user.
SpoofSendInputs ==
    {[groupId |-> IntV(1), group_id |-> NoneV, content |-> StrV(<<"h">>),
      senderId |-> IntV(u), userId |-> IntV(u)] : u \in Users}

SpoofTypingInputs ==
    {[groupId |-> IntV(1), group_id |-> IntV(1), senderId |-> IntV(u),
      userId |-> IntV(u)] : u \in Users}

NextSpoof ==
    \/ \E sid \in Sids : handle_connect(sid, RateToken(sid))
    \/ \E sid \in Sids : handle_disconnect(sid)
    \/ \E sid \in Sids : handle_join_group(sid, IntV(1))
    \/ \E sid \in Sids, d \in SpoofSendInputs :
          inflight = {} /\ SendBegin(sid, d, MaxStamps, MaxStamps)
    \/ \E h \in inflight, committed \in BOOLEAN : SendCommit(h, committed)
    \/ \E h \in inflight : SendBroadcast(h)
    \/ \E sid \in Sids, d \in SpoofTypingInputs : handle_typing(sid, d)
    \/ \E sid \in Sids, d \in SpoofTypingInputs : handle_stop_typing(sid, d)

SpecSpoof == Init /\ [][NextSpoof]_vars

\* ---------------------------------------------------------------------
\* SpecMembers: one group and its membership, under every membership
\* request of both users.
MaxMembersInputs == {AbsentV, IntV(1), IntV(2)}
RoleInputs == {"admin", "moderator", "member", "owner"}
MemberIds == 1..3

NextMembers ==
    \/ \E u \in Users, mm \in MaxMembersInputs,
          pub \in {AbsentV, BoolV(FALSE)} : create_group_chat(u, mm, pub)
    \/ \E u \in Users, g \in Groups, mm \in MaxMembersInputs,
          pub \in {AbsentV, BoolV(TRUE), BoolV(FALSE)} :
          update_group_chat(u, g, mm, pub)
    \/ \E u \in Users, g \in Groups : join_group_chat(u, g)
    \/ \E u \in Users, g \in Groups : leave_group_chat(u, g)
    \/ \E u \in Users, g \in Groups, m \in MemberIds, r \in RoleInputs :
          update_member_role(u, g, m, r)
    \/ \E u \in Users, g \in Groups, m \in MemberIds :
          remove_member(u, g, m)

SpecMembers == Init /\ [][NextMembers]_vars

\* =====================================================================
\* Properties
\* =====================================================================
\* sessions whose recorded joined-rooms set contains R
JoinedTo(R) ==
    {sid \in DOMAIN connected_users : R \in connected_users[sid].rooms}

\* C1: after every completed join_group, leave_group or disconnect, the
\* member set the broadcaster delivers to for each room equals the set of
\* sessions whose joined-rooms set in the registry contains that room.
C1_MembershipIsTranspose ==
    last.op \in {"join_group", "leave_group", "disconnect"}
        => \A R \in Groups : sio_rooms[R] = JoinedTo(R)

C1_Witness ==
    /\ last.op = "leave_group" /\ last.outcome = "ok" /\ last.sid = "s1"
    /\ sio_rooms[1] = {"s2"}
    /\ sio_rooms[2] = {"s1", "s2"}

\* C2: when the commit of a send fails, the table is unchanged, the send
\* is over without a broadcast, and one private send_error goes to the
\* sending session; a new_message is only emitted for a stored row.
C2_PersistBeforeBroadcast ==
    [][/\ \A h \in inflight : SendCommit(h, FALSE) =>
             /\ messages' = messages
             /\ inflight' = inflight \ {h}
             /\ last'.emit.event = "send_error"
             /\ last'.emit.private
             /\ last'.emit.to = {h.sid} \cap sio_connected
       /\ last'.emit.event = "new_message" =>
             \E i \in DOMAIN messages' :
                /\ messages'[i].id = last'.emit.payload.id
                /\ messages'[i].content = last'.emit.payload.content
                /\ messages'[i].group_chat_id = last'.emit.payload.groupId
      ]_vars

C2_Witness ==
    /\ last.outcome = "persist_failed"
    /\ last.emit.to = {last.sid}
    /\ sio_rooms[1] = Sids
    /\ messages = <<>>

\* an event of connection sid reaches the server
EventArrival(sid) ==
    \/ \E op \in EventNames : sio_drop_event(sid, op)
    \/ \E g \in GroupIdInputs :
          handle_join_group(sid, g) \/ handle_leave_group(sid, g)
    \/ sid \in Senders
          /\ \E d \in SendInputs : SendBegin(sid, d, MaxStamps, MaxStamps)

\* C3: a connect with a missing token, an undecodable token or a token
\* without subject creates no session, and no event of a connection
\* without a session changes membership, stores a message or emits.
C3_RefusedConnect ==
    [][\A sid \in Sids :
         /\ \A tk \in Tokens :
               (tk.kind \in {"missing", "malformed", "nosub"}
                /\ handle_connect(sid, tk))
               => /\ sid \notin DOMAIN connected_users'
                  /\ sid \notin sio_connected'
         /\ (sid \notin DOMAIN connected_users /\ EventArrival(sid))
               => /\ UNCHANGED <<sio_rooms, messages, inflight,
                                 connected_users, rate_limit_store>>
                  /\ last'.emit = NoEmit
      ]_vars

C3_Witness ==
    /\ last.op = "connect" /\ last.outcome = "refused"
    /\ last.sid = "s1"
    /\ "s1" \notin DOMAIN connected_users
    /\ sio_rooms[1] = {"s2"}

\* C4: right after a disconnect the session is in neither the registry
\* nor the member set of any room, whatever it had joined.
C4_DisconnectCleanup ==
    last.op = "disconnect"
        => /\ last.sid \notin DOMAIN connected_users
           /\ \A R \in Groups : last.sid \notin sio_rooms[R]

C4_Witness ==
    /\ last.op = "disconnect" /\ last.sid = "s1"
    /\ last.rooms = {1, 2}
    /\ sio_rooms[1] = {"s2"}

\* C5 as claimed: a persisted send is delivered to every session joined to
\* the room and to the sending session.
C5_EchoToSenderAlways ==
    last.outcome = "sent"
        => last.emit.to = sio_rooms[last.emit.payload.groupId] \cup {last.sid}

\* C5 amended: a persisted send is delivered to exactly the sessions joined
\* to the room when the broadcast is made, the sender not being skipped, and
\* carries the stored content and the sender's user id.
C5_BroadcastToMembers ==
    last.outcome = "sent"
        => /\ last.emit.event = "new_message"
           /\ last.emit.to = sio_rooms[last.emit.payload.groupId]
           /\ \E i \in DOMAIN messages :
                 /\ messages[i].id = last.emit.payload.id
                 /\ messages[i].content = last.emit.payload.content
                 /\ messages[i].sender_id = last.emit.payload.userId
                 /\ messages[i].group_chat_id = last.emit.payload.groupId
           /\ last.sid \in DOMAIN connected_users
                 => last.emit.payload.userId
                       = connected_users[last.sid].user_id

C5_Witness ==
    /\ last.outcome = "sent" /\ last.sid = "s1"
    /\ last.emit.to = {"s1", "s2"}
    /\ last.emit.payload.content = <<"h">>
    /\ connected_users["s1"].user_id # connected_users["s2"].user_id

\* C6 as claimed: a typing or stop_typing event of an authenticated session
\* that names a room reaches every other session of the room and not the
\* sender, in every state of the server.
C6_TypingReachesOthers ==
    [][\A sid \in Sids, d \in TypingInputs :
         (sid \in DOMAIN connected_users /\ d.groupId = IntV(1))
         => /\ (sio_no_handler(sid, "typing") \/ handle_typing(sid, d))
                  => /\ last'.emit.event = "user_typing"
                     /\ last'.emit.to = sio_rooms[1] \ {sid}
            /\ (sio_no_handler(sid, "stop_typing")
                \/ handle_stop_typing(sid, d))
                  => /\ last'.emit.event = "user_stop_typing"
                     /\ last'.emit.to = sio_rooms[1] \ {sid}
      ]_vars

\* timestamps of a window that are younger than the window at time now
Recent(ts, now) == {i \in DOMAIN ts : now - ts[i] < RateWindow}

WindowOf(user_id, group_id) ==
    IF RateKey(user_id, group_id) \in DOMAIN rate_limit_store
    THEN rate_limit_store[RateKey(user_id, group_id)] ELSE <<>>

ValidRateSend == [groupId |-> IntV(1), group_id |-> NoneV,
                  content |-> StrV(<<"h">>)]

\* C7: a valid send is rejected as rate-limited exactly when 10 sends of
\* the same user to the same room were accepted in the last 60 seconds;
\* once 60 seconds have passed since the earliest recorded send, it is
\* accepted.
C7_TenPerWindow ==
    [][SendBegin("s1", ValidRateSend, MaxRateMsgs, RateLimit + 1) =>
          LET w == WindowOf(1, 1) IN
          /\ last'.outcome = "rate_limited"
                <=> Cardinality(Recent(w, clock)) >= RateLimit
          /\ (w # <<>> /\ clock - w[1] >= RateWindow)
                => last'.outcome = "pending"
      ]_vars

C7_Witness ==
    /\ last.outcome = "rate_limited"
    /\ clock = RateWindow - 1
    /\ Len(WindowOf(1, 1)) = RateLimit
    /\ WindowOf(1, 1)[1] = 0
    /\ WindowOf(1, 1)[RateLimit] = RateWindow - 1

\* C8: a send rejected by the rate limiter stores nothing, leaves no
\* handler that would store or broadcast, leaves the window as it was and
\* sends one private send_error to the sender.
C8_RateLimitedNoSideEffect ==
    [][\A d \in RateSendInputs :
         (SendBegin("s1", d, MaxRateMsgs, RateLimit + 1)
          /\ last'.outcome = "rate_limited")
         => /\ UNCHANGED <<messages, inflight, rate_limit_store>>
            /\ last'.emit.event = "send_error"
            /\ last'.emit.private
            /\ last'.emit.to = {"s1"}
      ]_vars

C8_Witness ==
    /\ last.outcome = "rate_limited"
    /\ sio_rooms[1] = {"s2"}
    /\ clock = RateWindow
    /\ Len(WindowOf(1, 1)) = RateLimit

\* a payload whose groupId or content is missing, or whose content is
\* nothing but whitespace
BadSendData(d) ==
    \/ d.groupId.t = "none" /\ d.group_id.t = "none"
    \/ d.content.t = "none"
    \/ d.content.t = "str"
          /\ \A i \in DOMAIN d.content.s : d.content.s[i] \in Whitespace

\* C9: a send_message of a registered session with such a payload gets one
\* private send_error; nothing is stored or left to be stored, nothing is
\* broadcast, and the session stays registered.
C9_InvalidSendRejected ==
    [][\A sid \in Senders, d \in SendInputs :
         (/\ last'.op = "send_message" /\ last'.sid = sid
          /\ sid \in DOMAIN connected_users /\ BadSendData(d)
          /\ SendBegin(sid, d, MaxStamps, MaxStamps))
         => /\ UNCHANGED <<messages, inflight, connected_users,
                           sio_connected, sio_rooms, rate_limit_store>>
            /\ last'.emit.event = "send_error"
            /\ last'.emit.private
            /\ last'.emit.to = {sid}
      ]_vars

C9_Witness ==
    /\ last.op = "send_message" /\ last.outcome = "empty_content"
    /\ last.sid = "s1"
    /\ sio_rooms[1] = {"s1", "s2"}
    /\ last.emit.to = {"s1"}

\* C10 as claimed: every rejected or failed operation of a connected,
\* authenticated session ends in one private error event to that session.
C10_NoSilentFailure ==
    (/\ last.sid \in DOMAIN connected_users
     /\ last.outcome \in {"exception", "no_handler", "ignored",
                          "unauthenticated", "missing_group",
                          "missing_content", "bad_group", "empty_content",
                          "rate_limited", "persist_failed"})
    => /\ last.emit.event \in {"send_error", "error"}
       /\ last.emit.private
       /\ last.emit.to = {last.sid}

\* outcomes of a handler step that failed
FailureOutcomes ==
    {"exception", "unauthenticated", "missing_group", "missing_content",
     "bad_group", "empty_content", "rate_limited", "persist_failed"}

\* C11: a step in which the handling of one session's event fails delivers
\* its event, if any, to that session alone and leaves every other
\* session's registry entry and room membership as they were; it leaves
\* what the dispatch of later events depends on, the connected sessions
\* and the registered handlers, in place.
C11_FailureIsolated ==
    [][last'.outcome \in FailureOutcomes
         => /\ last'.emit.to \subseteq {last'.sid}
            /\ sio_connected' = sio_connected
            /\ nested_registered => nested_registered'
            /\ \A sid \in Sids \ {last'.sid} :
                  /\ sid \in DOMAIN connected_users'
                        <=> sid \in DOMAIN connected_users
                  /\ sid \in DOMAIN connected_users
                        => connected_users'[sid] = connected_users[sid]
                  /\ \A R \in Groups :
                        sid \in sio_rooms'[R] <=> sid \in sio_rooms[R]
      ]_vars

C11_Witness ==
    /\ last.op = "send_message" /\ last.outcome = "persist_failed"
    /\ last.sid = "s1" /\ last.emit.to = {"s1"}
    /\ "s2" \in DOMAIN connected_users
    /\ connected_users["s2"].rooms = {1, 2}
    /\ sio_rooms[1] = {"s1", "s2"}

\* C12: whatever a step does (a join, leave, send, typing or stop_typing
\* of any session, or the connect or disconnect of another one), a session
\* registered before and after it has the same user_id.
C12_UserIdFixed ==
    [][\A sid \in DOMAIN connected_users \cap DOMAIN connected_users' :
          connected_users'[sid].user_id = connected_users[sid].user_id
      ]_vars

C12_Witness ==
    /\ last.op = "stop_typing" /\ last.outcome = "ok" /\ last.sid = "s1"
    /\ messages # <<>>
    /\ DOMAIN connected_users = Sids
    /\ connected_users["s1"].user_id = 2
    /\ connected_users["s2"].user_id = 1
    /\ connected_users["s1"].rooms = {1}

\* C13: a leave_group for a room the session has not joined, and a
\* disconnect handled for a sid that has no registry entry, change neither
\* the registry nor any room's member set and raise nothing: the leave is
\* acknowledged as usual, the disconnect emits nothing.
C13_NoOpLeaveAndDisconnect ==
    [][/\ last'.op = "leave_group" =>
            \A g \in GroupIdInputs :
               (/\ int(g).ok /\ last'.sid \notin sio_rooms[int(g).n]
                /\ handle_leave_group(last'.sid, g))
               => /\ UNCHANGED <<connected_users, sio_rooms, sio_connected>>
                  /\ last'.outcome = "ok"
                  /\ last'.emit.event = "left"
                  /\ last'.emit.to = {last'.sid}
       /\ (/\ last'.op = "disconnect"
            /\ last'.sid \notin DOMAIN connected_users
            /\ handle_disconnect(last'.sid))
            => /\ UNCHANGED <<connected_users, sio_rooms, sio_connected>>
               /\ last'.outcome = "unknown"
               /\ last'.emit = NoEmit
      ]_vars

\* s1, in room 2 only, has left room 1, in which s2 is
C13_Witness ==
    /\ last.op = "leave_group" /\ last.outcome = "ok" /\ last.sid = "s1"
    /\ last.emit.payload.groupId = 1
    /\ last.rooms = {2}
    /\ connected_users["s1"].rooms = {2}
    /\ sio_rooms[1] = {"s2"}

\* s1 has disconnected and its disconnect is handled once more
C13_WitnessRepeatedDisconnect ==
    /\ last.op = "disconnect" /\ last.outcome = "unknown" /\ last.sid = "s1"
    /\ sio_rooms[1] = {"s2"}
    /\ messages # <<>>

\* C14 as claimed: in one room, new_message events are emitted in the
\* order in which their rows were committed, whatever the interleaving of
\* the handlers of different sessions. Stated on the state a broadcast
\* leaves: no row of that room committed earlier by another session's
\* handler is still waiting for its broadcast.
C14_BroadcastInCommitOrder ==
    last.outcome = "sent"
        => ~\E h \in inflight :
               /\ h.pc = "lookup"
               /\ h.sid # last.sid
               /\ h.group_id = last.emit.payload.groupId
               /\ h.id < last.emit.payload.id

\* C15: a new_message goes to the sessions that are joined to the room when
\* it is emitted, after its row was stored, and to no other: a session
\* that left before the emit is not among them and a session that joined
\* before the emit is, whenever the send began.
C15_RecipientsAtBroadcastTime ==
    last.outcome = "sent"
        => /\ \A sid \in Sids :
                 sid \in last.emit.to
                    <=> /\ sid \in DOMAIN connected_users
                        /\ last.emit.room \in connected_users[sid].rooms
           /\ last.emit.payload.id \in DOMAIN messages

\* s2 connected, and so joined, after s1's message was created, and is
\* among the recipients
C15_Witness ==
    /\ last.outcome = "sent" /\ last.sid = "s1"
    /\ last.emit.to = {"s2"}
    /\ messages[last.emit.payload.id].created_at = 0
    /\ connected_users["s2"].connected_at = 1

\* C16: when a session disconnects while a send of its own is past the
\* sender check, the disconnect removes the session's entry and its
\* membership of every room and touches nothing else, the send included;
\* the send then goes on as any other: its commit stores the row, its
\* broadcast reaches the members the room has then, and neither step
\* brings the session back or removes anything again.
C16_DisconnectDuringSend ==
    [][/\ (/\ last'.op = "disconnect"
            /\ \E h \in inflight :
                  h.sid = last'.sid /\ h.pc \in {"commit", "lookup"}
            /\ handle_disconnect(last'.sid))
            => /\ UNCHANGED <<inflight, messages>>
               /\ connected_users' = DictPop(connected_users, last'.sid)
               /\ \A R \in Groups :
                     sio_rooms'[R] = sio_rooms[R] \ {last'.sid}
       /\ last'.op = "send_message" =>
            \A h \in inflight :
               h.sid \notin sio_connected =>
                  /\ SendCommit(h, TRUE) =>
                        /\ Len(messages') = Len(messages) + 1
                        /\ messages'[Len(messages')].content = h.content
                        /\ UNCHANGED <<connected_users, sio_rooms,
                                       sio_connected>>
                  /\ SendBroadcast(h) =>
                        /\ last'.emit.event = "new_message"
                        /\ last'.emit.payload.id = h.id
                        /\ last'.emit.to = sio_rooms[h.group_id]
                        /\ h.sid \notin last'.emit.to
                        /\ UNCHANGED <<connected_users, sio_rooms,
                                       sio_connected>>
      ]_vars

\* s1 sent to room 1, which it had joined, and disconnected before the
\* broadcast, which s2 received
C16_Witness ==
    /\ last.outcome = "sent" /\ last.sid = "s1"
    /\ "s1" \notin sio_connected
    /\ "s1" \notin DOMAIN connected_users
    /\ last.emit.to = {"s2"}
    /\ Len(messages) = 1 /\ last.emit.payload.id = 1

\* the timestamps of ts that are younger than the window at time now, in
\* their order
YoungerThanWindow(ts, now) ==
    SelectSeq(ts, LAMBDA t : now - t < RateWindow)

\* C17: a call of the limiter for (user 1, room 1) at time clock leaves, when
\* it denies, the timestamps that were younger than 60 seconds and nothing
\* else, and when it allows, those followed by clock; either way the window
\* then holds at most 10 timestamps, each younger than 60 seconds.
C17_WindowAfterCall ==
    [][(/\ last'.op = "send_message"
        /\ last'.outcome \in {"pending", "rate_limited"}
        /\ SendBegin("s1", ValidRateSend, MaxRateMsgs, RateLimit + 1))
        => LET kept == YoungerThanWindow(WindowOf(1, 1), clock)
               after == rate_limit_store'[RateKey(1, 1)]
           IN  /\ last'.outcome = "rate_limited" => after = kept
               /\ last'.outcome = "pending" => after = Append(kept, clock)
               /\ Len(after) <= RateLimit
               /\ \A i \in DOMAIN after : clock - after[i] < RateWindow
      ]_vars

\* an allowed call at 60 that dropped timestamps of time 0 and kept those
\* of time 59
C17_Witness ==
    /\ last.outcome = "pending"
    /\ clock = RateWindow
    /\ Len(WindowOf(1, 1)) = RateLimit
    /\ WindowOf(1, 1)[1] = RateWindow - 1
    /\ accepted[RateKey(1, 1)][1] = 0
    /\ Len(accepted[RateKey(1, 1)]) > RateLimit

\* C18: of the calls the limiter allowed for one (user, room), at most 10
\* have their time in any interval [a, a + 60). It is enough to look at the
\* intervals that start at the time of an allowed call: any other interval
\* holds no more than the one that starts at the first call in it.
C18_SlidingWindow ==
    \A key \in DOMAIN accepted :
       \A i \in DOMAIN accepted[key] :
          Cardinality({j \in DOMAIN accepted[key] :
                          /\ accepted[key][i] <= accepted[key][j]
                          /\ accepted[key][j] < accepted[key][i] + RateWindow})
             <= RateLimit

\* 10 calls allowed at time 0 and 10 more at time 60, when those of time 0
\* are exactly 60 seconds old
C18_Witness ==
    /\ clock = RateWindow
    /\ RateKey(1, 1) \in DOMAIN accepted
    /\ Len(accepted[RateKey(1, 1)]) = RateLimit + RateLimit
    /\ accepted[RateKey(1, 1)][RateLimit] = 0
    /\ accepted[RateKey(1, 1)][RateLimit + 1] = RateWindow

\* what C19 says of every send_message handler that starts for a sid
\* without registry entry, but for who receives the error
UnregisteredSendRejected(h) ==
    /\ last'.outcome = "unauthenticated"
    /\ last'.emit.event = "send_error"
    /\ last'.emit.private
    /\ inflight' = inflight \ {h}
    /\ UNCHANGED <<messages, rate_limit_store, accepted, connected_users,
                   sio_rooms, sio_connected>>

C20_RejoinIsNoOp ==
    [][last'.op = "join_group" =>
          \A g \in GroupIdInputs :
             (/\ int(g).ok
              /\ last'.sid \in sio_rooms[int(g).n]
              /\ handle_join_group(last'.sid, g))
             => /\ UNCHANGED <<connected_users, sio_rooms, sio_connected>>
                /\ last'.outcome = "ok"
                /\ last'.emit.event = "joined"
                /\ last'.emit.to = {last'.sid}
      ]_vars

\* s1, joined to rooms 1 and 2, has joined room 1 again
C20_Witness ==
    /\ last.op = "join_group" /\ last.outcome = "ok" /\ last.sid = "s1"
    /\ last.emit.payload.groupId = 1
    /\ last.rooms = {1, 2}
    /\ connected_users["s1"].rooms = {1, 2}
    /\ sio_rooms[1] = {"s1", "s2"}
    /\ sio_rooms[2] = {"s1"}

C22_AcksToOriginOnly ==
    last.emit.event \in {"connected", "joined", "left"}
       => /\ last.emit.private
          /\ last.emit.to = {last.sid}
          /\ last.op = CASE last.emit.event = "connected" -> "connect"
                          [] last.emit.event = "joined" -> "join_group"
                          [] OTHER -> "leave_group"

\* s1 has joined room 1 for the first time while s2 is a member of it
C22_Witness ==
    /\ last.op = "join_group" /\ last.sid = "s1" /\ last.rooms = {}
    /\ last.emit.event = "joined" /\ last.emit.payload.groupId = 1
    /\ sio_rooms[1] = {"s1", "s2"}
    /\ last.emit.to = {"s1"}

\* content that is missing, empty or only whitespace
BlankContent(c) ==
    \/ c.t \in {"absent", "none"}
    \/ c.t = "str" /\ strip(c.s) = <<>>

\* C23: every stored message, whichever of the socket handler and the two
\* REST endpoints created it, has content that is non-empty and already
\* trimmed; and no step that stores a row is a REST create request, or the
\* start of a socket send, whose content is missing, empty or
\* whitespace-only.
C23_StoredContentNonEmpty ==
    [][messages' # messages =>
          /\ \A i \in DOMAIN messages' :
                /\ messages'[i].content # <<>>
                /\ strip(messages'[i].content) = messages'[i].content
          /\ \A u \in Users, c \in RestContents :
                BlankContent(c) =>
                   /\ \A g \in Groups : ~send_message(u, g, c)
                   /\ \A g \in RestGroupPaths : ~send_group_message(u, g, c)
          /\ \A h \in inflight' \ inflight : ~BlankContent(h.data.content)
      ]_vars

\* two rows are stored, the first from text with surrounding blanks, and
\* the latest request, POST /group-chats/1/messages, was refused for its
\* content
C23_Witness ==
    /\ Len(messages) = 2
    /\ messages[1].content = <<"h">>
    /\ response.op = "send_message" /\ response.status = 500

\* C24 as claimed: the messages a history endpoint returns, from either of
\* GET /group-chats/<id>/messages and GET /messages/<id>, are in order of
\* creation time ascending, oldest first.
C24_HistoryAscending ==
    (response.op \in {"get_messages", "get_group_messages"}
        /\ response.status = 200)
       => \A i, j \in DOMAIN response.body :
             i < j => messages[response.body[i]].created_at
                         <= messages[response.body[j]].created_at

\* C25 as claimed: when the socket send_message handler stores a row for
\* room R, or broadcasts new_message to R, the sending session is joined
\* to R at that moment: it is in R's member set and R is in its own
\* joined-rooms set.
C25_SenderJoined ==
    [][last'.op = "send_message" =>
          /\ messages' # messages =>
                LET R == messages'[Len(messages')].group_chat_id IN
                /\ last'.sid \in sio_rooms[R]
                /\ last'.sid \in DOMAIN connected_users
                /\ R \in connected_users[last'.sid].rooms
          /\ last'.emit.event = "new_message" =>
                /\ last'.sid \in sio_rooms[last'.emit.room]
                /\ last'.sid \in DOMAIN connected_users
                /\ last'.emit.room \in connected_users[last'.sid].rooms
      ]_vars

\* C26: the sender_id of every row the socket handler stores, and the
\* user id in every new_message, user_typing and user_stop_typing it emits,
\* is the user id the sending connection authenticated with at connect,
\* whatever senderId / userId the payload carries.
C26_SenderIsAuthenticatedUser ==
    [][last'.op \in {"send_message", "typing", "stop_typing"} =>
          /\ messages' # messages =>
                messages'[Len(messages')].sender_id
                   = RateToken(last'.sid).sub
          /\ last'.emit.event
                \in {"new_message", "user_typing", "user_stop_typing"}
                => last'.emit.payload.userId = RateToken(last'.sid).sub
      ]_vars

\* s1, user 1, sent a message whose payload names user 2 as its sender:
\* the row is stored with sender 1 and the handler is about to broadcast
C26_Witness ==
    \E h \in inflight :
       /\ h.sid = "s1" /\ h.pc = "lookup" /\ h.id > 0
       /\ h.data.senderId = IntV(2) /\ h.data.userId = IntV(2)
       /\ messages[h.id].sender_id = 1

\* s1, user 1, has emitted typing with a payload naming user 2
C26_WitnessTyping ==
    /\ last.op = "typing" /\ last.sid = "s1" /\ last.outcome = "ok"
    /\ last.emit.payload.userId = 1
    /\ 1 \in TypingSet(1) /\ 2 \notin TypingSet(1)

\* C27 as claimed: whenever no send of user 1 is under way, the timestamps
\* of the last 60 seconds in the (user 1, room 1) rate window are as many
\* as the messages of user 1 stored for room 1 in the last 60 seconds: a
\* send whose commit failed has left no timestamp.
C27_QuotaOnlyForPersisted ==
    inflight = {} =>
       Cardinality(Recent(WindowOf(1, 1), clock))
          = Cardinality({i \in DOMAIN messages :
                            /\ messages[i].sender_id = 1
                            /\ messages[i].group_chat_id = 1
                            /\ clock - messages[i].created_at < RateWindow})

\* C28 as claimed: every user id in a room's typing set belongs to a
\* registered session; after a disconnect, and after a stop_typing, the
\* user of that session is in no room's typing set unless another of
\* their sessions is live.
C28_TypingOnlyLiveUsers ==
    \A g \in DOMAIN user_typing : \A u \in user_typing[g] :
       \E sid \in DOMAIN connected_users : connected_users[sid].user_id = u

\* C29 as claimed: the active members of a group are never more than its
\* max_members, after any sequence of create, update, join, leave,
\* role-update and remove-member requests.
C29_CapacityRespected ==
    \A g \in DOMAIN group_chats : ActiveCount(g) <= group_chats[g].max_members

\* active admin rows of group g among the rows gm
ActiveAdmins(gm, g) ==
    {i \in DOMAIN gm : /\ gm[i].group_chat_id = g
                        /\ gm[i].group_role = "admin"
                        /\ gm[i].is_active}

\* C30 as claimed: no leave, remove-member or update-member-role request
\* takes a group from having an active admin to having none.
C30_LastAdminKept ==
    [][\A g \in DOMAIN group_chats :
          ActiveAdmins(group_members, g) # {}
             => ActiveAdmins(group_members', g) # {}
      ]_vars

====
